---- MODULE Spec2Model ----
(***************************************************************************)
(* Model of smartline-app/inspect_images.py: a module-level loop over five *)
(* fixed file names that, for each name, tests whether the path exists,    *)
(* opens it as an image, prints its mode and size, samples the four corner *)
(* pixels and prints them; a failure inside the try block is printed and   *)
(* the loop goes on.                                                       *)
(*                                                                         *)
(* The program's state is the loop position (i, pc), the module-global     *)
(* name img, and the lines written to standard output (out).  The file     *)
(* system is the environment: dirOk says whether base_path can be          *)
(* traversed, disk gives each path's content.  A path's content is fixed   *)
(* in a behaviour when the program first looks at it (it is Unread until   *)
(* then), which is the same as fixing every file before the run starts     *)
(* because nothing looks at a path earlier.  calls is the history of       *)
(* library calls the program has made and raced the set of paths another   *)
(* process has changed under the loop, both kept for the properties.       *)
(***************************************************************************)
EXTENDS Integers, Sequences, FiniteSets, TLC

VARIABLES i, pc, img, out, disk, dirOk, calls, tampers, raced

vars == <<i, pc, img, out, disk, dirOk, calls, tampers, raced>>

\* Number of pixels (width * height) of the larger images on the file system.
MaxPixels == 2

\* How many times another process changes a file during one run (SpecRace).
MaxTamper == 1

----------------------------------------------------------------------------
(* Constants of the script *)

files == <<"saver.webp", "comfort.webp", "vip.webp", "taxi.webp", "scooter.webp">>

base_path == "e:\\sm-new\\smart-v2\\smartline-app\\src\\assets\\images"

\* os.path.join(base_path, f): the directory and the name, kept apart.
Join(b, f) == <<b, f>>

\* Path of files[k] with the index the loop never uses for anything else.
PathFirst(k) == Join(base_path, files[1])

\* path = os.path.join(base_path, f), for f = files[k]
Path(k) == Join(base_path, files[k])

Paths == {Join(base_path, files[k]) : k \in 1..Len(files)}

----------------------------------------------------------------------------
(* The file system *)

NoFile(kind) == [kind |-> kind, w |-> 0, h |-> 0, trunc |-> FALSE]

Unread == NoFile("unread")

Missing == NoFile("missing")

\* A file that is there but is no image: Image.open cannot identify it.
Garbage == NoFile("garbage")

\* Image files of w x h pixels; trunc: the header is intact (mode and size
\* decode) but the pixel data is damaged, so reading a pixel fails.
ImageFile(w, h, t) == [kind |-> "image", w |-> w, h |-> h, trunc |-> t]

\* The sizes of the images on the file system: the single pixel, and every
\* shape of MaxPixels pixels (wide, tall and in between).
Sizes ==
  {<<1, 1>>} \cup
  {wh \in (1..MaxPixels) \X (1..MaxPixels) : wh[1] * wh[2] = MaxPixels}

ImageFiles == {ImageFile(wh[1], wh[2], t) : wh \in Sizes, t \in BOOLEAN}

FileStates == {Missing, Garbage} \cup ImageFiles

\* The pixel stored at (x, y) of image file s: every pixel of a file holds
\* a different value, its raster position, so that reads of different
\* coordinates are told apart.
PixelAt(s, x, y) == y * s.w + x

Mode(s) == "RGBA"

----------------------------------------------------------------------------
(* Library calls, as the script uses them *)

\* os.stat(path), on the file system whose content is d
Stat(d, p) ==
  IF ~dirOk THEN "EACCES"
  ELSE IF d[p].kind = "missing" THEN "ENOENT"
  ELSE "ok"

\* A test that lets every error but "no such file" propagate.
ExistsStrict(d, p) ==
  IF Stat(d, p) = "ok" THEN "True"
  ELSE IF Stat(d, p) = "ENOENT" THEN "False"
  ELSE "raise"

\* A test that is not made at all.
ExistsAlways(d, p) == "True"

\* os.path.exists(path): False on any OSError of os.stat, never raises.
Exists(d, p) == IF Stat(d, p) = "ok" THEN "True" ELSE "False"

Exc(cls, msg) == [cls |-> cls, msg |-> msg]

NoExc == Exc("", "")

ExceptionClasses ==
  {"FileNotFoundError", "UnidentifiedImageError", "OSError", "IndexError"}

\* except UnidentifiedImageError as e
CaughtUnidentifiedOnly(e) == e.cls = "UnidentifiedImageError"

\* except Exception as e: every error the library raises is an Exception.
Caught(e) == e.cls \in ExceptionClasses

\* str(e)
Str(e) == e.msg

\* Image.open(path): the error it raises, NoExc when it returns an image.
OpenError(p) ==
  CASE ~dirOk -> Exc("OSError", "Permission denied")
    [] disk[p].kind = "missing" ->
         Exc("FileNotFoundError", "No such file or directory")
    [] disk[p].kind = "garbage" ->
         Exc("UnidentifiedImageError", "cannot identify image file")
    [] OTHER -> NoExc

\* img.getpixel(xy), the k-th of the four reads, on the image opened from p:
\* the pixel data is decoded from the file when it is first read.  badAt is
\* the read at which a damaged file's damage is met.
PixelError(p, xy, k, badAt) ==
  LET s == disk[p] IN
  CASE ~dirOk -> Exc("OSError", "Permission denied")
    [] s.kind # "image" -> Exc("OSError", "image file is truncated")
    [] s.trunc /\ k >= badAt -> Exc("OSError", "image file is truncated")
    [] xy[1] >= s.w \/ xy[2] >= s.h ->
         Exc("IndexError", "image index out of range")
    [] OTHER -> NoExc

GetPixel(p, xy) == PixelAt(disk[p], xy[1], xy[2])

----------------------------------------------------------------------------
(* Formatting *)

Digits == <<"0", "1", "2", "3", "4", "5", "6", "7", "8", "9">>

RECURSIVE Repr(_)
\* repr of a natural number, as a sequence of characters
Repr(n) ==
  IF n < 10 THEN <<Digits[n + 1]>>
  ELSE Repr(n \div 10) \o <<Digits[(n % 10) + 1]>>

RECURSIVE Commas(_)
Commas(s) ==
  IF Len(s) = 0 THEN << >>
  ELSE IF Len(s) = 1 THEN Repr(s[1])
  ELSE Repr(s[1]) \o <<", ">> \o Commas(Tail(s))

\* repr of img.size, a tuple
TupleRepr(s) == <<"(">> \o Commas(s) \o <<")">>

\* repr of a list
ListRepr(s) == <<"[">> \o Commas(s) \o <<"]">>

\* f"{f}: Mode={img.mode}, Size={img.size}"
ModeSizeLine(f, im) ==
  <<f, ": Mode=", im.mode, ", Size=">> \o TupleRepr(<<im.width, im.height>>)

\* f"  Corners: {corners}"
CornersLine(corners) == <<"  Corners: ">> \o ListRepr(corners)

\* f"  Error reading {f}: {e}"
ErrorLine(f, e) == <<"  Error reading ", f, ": ", Str(e)>>

\* f"{f} not found"
NotFoundLine(f) == <<f, " not found">>

\* Writing a line at the front of what has been written.
EmitFirst(o, k, text) == <<[k |-> k, text |-> text]>> \o o

\* print(text) during the k-th iteration: the line goes to the end of the
\* output, marked with the iteration that printed it.
Emit(o, k, text) == Append(o, [k |-> k, text |-> text])

\* The else branch attached to the try: it runs after the corners line.
ReportElseOnTry(o, k, corners) ==
  Append(Append(o, [k |-> k, text |-> CornersLine(corners)]),
         [k |-> k, text |-> NotFoundLine(files[k])])


\* print(f"  Corners: {corners}") during the k-th iteration
Report(o, k, corners) == Emit(o, k, CornersLine(corners))

----------------------------------------------------------------------------
(* The loop *)

NoImg == [path |-> <<>>, mode |-> "", width |-> 0, height |-> 0, fp |-> FALSE]

\* The four coordinates with the last two exchanged.
CornerCoordsSwapped(im) ==
  << <<0, 0>>, <<im.width - 1, 0>>, <<im.width - 1, im.height - 1>>,
     <<0, im.height - 1>> >>

\* The coordinates the four getpixel calls are given, in the list's order.
CornerCoords(im) ==
  << <<0, 0>>, <<im.width - 1, 0>>, <<0, im.height - 1>>,
     <<im.width - 1, im.height - 1>> >>

Init ==
  /\ i = 1
  /\ pc = "check"
  /\ img = NoImg
  /\ out = << >>
  /\ disk = [p \in Paths |-> Unread]
  /\ dirOk \in BOOLEAN
  /\ calls = {}
  /\ tampers = 0
  /\ raced = {}

\* for f in files: the next name, or the end of the script
Advance ==
  IF i < Len(files)
  THEN i' = i + 1 /\ pc' = "check"
  ELSE i' = i /\ pc' = "done"

\* An except clause that leaves the loop after printing.
HandleBreak(e) ==
  IF Caught(e)
  THEN /\ out' = Emit(out, i, ErrorLine(files[i], e))
       /\ i' = i
       /\ pc' = "done"
  ELSE out' = out /\ i' = i /\ pc' = "aborted"

\* An except clause that prints nothing.
HandlePass(e) ==
  IF Caught(e)
  THEN out' = out /\ Advance
  ELSE out' = out /\ i' = i /\ pc' = "aborted"

\* The except clause, entered with e raised inside the try block.
Handle(e) ==
  IF Caught(e)
  THEN out' = Emit(out, i, ErrorLine(files[i], e)) /\ Advance
  ELSE out' = out /\ i' = i /\ pc' = "aborted"

\* The content a path is found to have when it is looked at.
Found(p) ==
  IF disk[p] = Unread /\ dirOk THEN FileStates ELSE {disk[p]}

\* if os.path.exists(path): ... else: print(f"{f} not found")
Check ==
  /\ pc = "check"
  /\ calls' = calls \cup {<<"exists", Path(i)>>}
  /\ \E s \in Found(Path(i)) :
       /\ disk' = [disk EXCEPT ![Path(i)] = s]
       /\ LET r == Exists([disk EXCEPT ![Path(i)] = s], Path(i)) IN
            CASE r = "True" -> pc' = "open" /\ UNCHANGED <<i, out>>
              [] r = "False" ->
                   /\ out' = Emit(out, i, NotFoundLine(files[i]))
                   /\ Advance
              [] OTHER -> pc' = "aborted" /\ UNCHANGED <<i, out>>
  /\ UNCHANGED <<img, dirOk, tampers, raced>>

\* img = Image.open(path); print(mode and size)
Open ==
  /\ pc = "open"
  /\ calls' = calls \cup {<<"open", Path(i)>>}
  /\ LET p == Path(i)
         s == disk[p]
         e == OpenError(p)
     IN IF e = NoExc
        THEN /\ img' = [path |-> p, mode |-> Mode(s), width |-> s.w,
                        height |-> s.h, fp |-> TRUE]
             /\ out' = Emit(out, i, ModeSizeLine(files[i], img'))
             /\ pc' = "sample"
             /\ i' = i
        ELSE /\ img' = img
             /\ Handle(e)
  /\ UNCHANGED <<disk, dirOk, tampers, raced>>

\* corners = [img.getpixel(...) x 4]; print(corners)
\* The script never closes img: img.fp tells whether the image's file
\* handle is open.  Image.open leaves it open; the library closes it once
\* the first read has decoded the pixel data, and leaves it open when that
\* read fails.  img stays bound after the iteration (a module-level name),
\* so nothing else releases the handle before the next Image.open rebinds
\* the name.
Sample ==
  /\ pc = "sample"
  /\ calls' = calls \cup {<<"getpixel", img.path>>}
  /\ \E badAt \in 1..4 :
       LET xy == CornerCoords(img)
           bad == {k \in 1..4 : PixelError(img.path, xy[k], k, badAt) # NoExc}
       IN IF bad = {}
          THEN /\ out' = Report(out, i,
                   [k \in 1..4 |-> GetPixel(img.path, xy[k])])
               /\ img' = [img EXCEPT !.fp = FALSE]
               /\ Advance
          ELSE LET k == CHOOSE k \in bad : \A j \in bad : k <= j IN
               /\ img' = [img EXCEPT !.fp = (k = 1)]
               /\ Handle(PixelError(img.path, xy[k], k, badAt))
  /\ UNCHANGED <<disk, dirOk, tampers, raced>>

\* Another process removes or replaces the file the loop is working on,
\* after the existence test and before or during the open and the reads.
Tamper ==
  /\ pc \in {"open", "sample"}
  /\ tampers < MaxTamper
  /\ tampers' = tampers + 1
  /\ raced' = raced \cup {Path(i)}
  /\ \E s \in FileStates \ {disk[Path(i)]} :
       disk' = [disk EXCEPT ![Path(i)] = s]
  /\ UNCHANGED <<i, pc, img, out, dirOk, calls>>

Next == Check \/ Open \/ Sample

Spec == Init /\ [][Next]_vars

\* The runs with a second process: base_path can be traversed and every
\* file is, when the run starts, missing or a sound image of the largest
\* size; what the other process puts in its place is any content.
RaceStart ==
  {Missing} \cup {s \in ImageFiles : ~s.trunc /\ s.w * s.h = MaxPixels}

InitRace ==
  /\ i = 1
  /\ pc = "check"
  /\ img = NoImg
  /\ out = << >>
  /\ disk \in [Paths -> RaceStart]
  /\ dirOk = TRUE
  /\ calls = {}
  /\ tampers = 0
  /\ raced = {}

NextRace == Check \/ Open \/ Sample \/ Tamper

SpecRace == InitRace /\ [][NextRace]_vars

\* The interpreter runs the script's next statement whenever there is one.
FairSpec == Spec /\ WF_vars(Next)

----------------------------------------------------------------------------
(* What the properties speak of *)

\* The path the script builds for files[k], written out.
FilePath(k) == <<base_path, files[k]>>

\* The lines printed during the iteration of files[k], in order.
Lines(k) ==
  LET L == SelectSeq(out, LAMBDA r : r.k = k)
  IN [j \in 1..Len(L) |-> L[j].text]

\* The loop has left the iteration of files[k].
Finished(k) == i > k \/ pc = "done"

IsNotFound(t) == Len(t) = 2 /\ t[2] = " not found"

IsModeSize(t) == Len(t) > 4 /\ t[2] = ": Mode="

IsCorners(t) == t[1] = "  Corners: "

IsError(t) == Len(t) = 4 /\ t[1] = "  Error reading " /\ t[3] = ": "

IsLast(t) == IsNotFound(t) \/ IsCorners(t) \/ IsError(t)

\* files[k] has been gone through once: one existence test, one last line.
ProcessedOnce(k) ==
  /\ <<"exists", FilePath(k)>> \in calls
  /\ Cardinality({j \in DOMAIN Lines(k) : IsLast(Lines(k)[j])}) = 1

Corrupt(s) == s.kind = "garbage" \/ (s.kind = "image" /\ s.trunc)

Sound(s) == s.kind = "image" /\ ~s.trunc

Range == 1..Len(files)

----------------------------------------------------------------------------
(* C1 *)

\* C1: whatever each of the five files is (missing, a sound image, failing
\* at the open or at a pixel read), the run ends normally and by then every
\* listed name has been processed exactly once.
C1_RunCompletes ==
  <>(pc = "done" /\ \A k \in Range : ProcessedOnce(k))

\* A run in which a missing file, a file that is no image and a damaged
\* image come before a sound one, and the sound one is reported.
C1_Witness ==
  /\ pc = "done"
  /\ disk[FilePath(1)] = Missing
  /\ disk[FilePath(2)] = Garbage
  /\ Corrupt(disk[FilePath(3)]) /\ disk[FilePath(3)].kind = "image"
  /\ Sound(disk[FilePath(5)])
  /\ IsCorners(Lines(5)[Len(Lines(5))])

----------------------------------------------------------------------------
(* C2 *)

\* C2 as stated: a corrupt file's whole output is the one line
\* "Error reading <filename>: <error text>".
C2_Original ==
  \A k \in Range :
    Finished(k) /\ Corrupt(disk[FilePath(k)]) =>
      /\ Len(Lines(k)) = 1
      /\ Len(Lines(k)[1]) = 4
      /\ Lines(k)[1][1] = "Error reading "
      /\ Lines(k)[1][2] = files[k]
      /\ Lines(k)[1][3] = ": "

\* C2 amended: a corrupt file's output ends with the line
\* "  Error reading <filename>: <error text>", which starts with two spaces,
\* and has no corners line; when the open fails that line is the whole
\* output, when a pixel read fails it comes after the mode/size line; the
\* run is not aborted.
C2_ErrorOutput ==
  /\ pc # "aborted"
  /\ \A k \in Range :
       Finished(k) /\ Corrupt(disk[FilePath(k)]) =>
         LET T == Lines(k)
             s == disk[FilePath(k)]
             last == T[Len(T)]
         IN /\ Len(T) >= 1
            /\ Len(last) = 4
            /\ last[1] = "  Error reading "
            /\ last[2] = files[k]
            /\ last[3] = ": "
            /\ \A j \in DOMAIN T : ~IsCorners(T[j])
            /\ s.kind = "garbage" => Len(T) = 1
            /\ s.kind = "image" =>
                 /\ Len(T) = 2
                 /\ IsModeSize(T[1])
                 /\ T[1][1] = files[k]

\* Both shapes have been printed: an open that failed on the first file
\* and a pixel read that failed on the second.
C2_Witness ==
  /\ Finished(2)
  /\ disk[FilePath(1)] = Garbage
  /\ disk[FilePath(2)].kind = "image" /\ disk[FilePath(2)].trunc
  /\ Len(Lines(1)) = 1
  /\ Len(Lines(2)) = 2

----------------------------------------------------------------------------
(* C3 *)

\* C3: for a path that does not exist the whole output is the one line
\* "<filename> not found", and neither Image.open nor getpixel is called
\* for it.
C3_NotFound ==
  \A k \in Range :
    dirOk /\ disk[FilePath(k)] = Missing =>
      /\ <<"open", FilePath(k)>> \notin calls
      /\ <<"getpixel", FilePath(k)>> \notin calls
      /\ Finished(k) => Lines(k) = << <<files[k], " not found">> >>

\* A missing file has been passed, after a file that was opened.
C3_Witness ==
  /\ Finished(2)
  /\ dirOk
  /\ disk[FilePath(2)] = Missing
  /\ <<"open", FilePath(1)>> \in calls
  /\ Len(Lines(2)) = 1

----------------------------------------------------------------------------
(* C4 *)

\* The value the file holds at (x, y), as printed.
Stored(s, x, y) == Repr(PixelAt(s, x, y))

\* C4: for a sound image of width w and height h the output is the
\* mode/size line with the image's mode and (w, h), then one corners line
\* with the four values stored at (0,0), (w-1,0), (0,h-1), (w-1,h-1), in
\* this order.
C4_Corners ==
  \A k \in Range :
    Finished(k) /\ Sound(disk[FilePath(k)]) =>
      LET s == disk[FilePath(k)]
          T == Lines(k)
      IN /\ Len(T) = 2
         /\ T[1] = <<files[k], ": Mode=", Mode(s), ", Size=", "(">>
                     \o Repr(s.w) \o <<", ">> \o Repr(s.h) \o <<")">>
         /\ T[2] = <<"  Corners: ", "[">>
                     \o Stored(s, 0, 0) \o <<", ">>
                     \o Stored(s, s.w - 1, 0) \o <<", ">>
                     \o Stored(s, 0, s.h - 1) \o <<", ">>
                     \o Stored(s, s.w - 1, s.h - 1) \o <<"]">>

\* A wide image and a tall one have both been reported.
C4_Witness ==
  /\ Finished(2)
  /\ Sound(disk[FilePath(1)]) /\ disk[FilePath(1)].w > 1
  /\ Sound(disk[FilePath(2)]) /\ disk[FilePath(2)].h > 1
  /\ IsCorners(Lines(1)[2])
  /\ IsCorners(Lines(2)[2])

----------------------------------------------------------------------------
(* C5 *)

\* C5: the lines come in the order of the list: every line of an earlier
\* name precedes every line of a later one, whatever each file's outcome.
C5_ListOrder ==
  \A a, b \in DOMAIN out :
    a < b => out[a].k <= out[b].k

\* Five names with three different outcomes have printed their lines.
C5_Witness ==
  /\ pc = "done"
  /\ Len(out) > Len(files)
  /\ \E a, b, c \in Range :
       /\ IsNotFound(Lines(a)[1])
       /\ IsError(Lines(b)[Len(Lines(b))])
       /\ IsCorners(Lines(c)[Len(Lines(c))])

----------------------------------------------------------------------------
(* C6 *)

\* C6: when an iteration is left, and when the run ends, no image file
\* handle is open.
C6_HandlesReleased ==
  pc \in {"check", "done"} => ~img.fp

----------------------------------------------------------------------------
(* C7 *)

\* The lines files[k] gets, from its name and its own file alone.
OwnLines(f, s) ==
  CASE s.kind = "unread" \/ s.kind = "missing" -> <<NotFoundLine(f)>>
    [] s.kind = "garbage" ->
         <<ErrorLine(f, Exc("UnidentifiedImageError",
                            "cannot identify image file"))>>
    [] s.kind = "image" /\ s.trunc ->
         << ModeSizeLine(f, [mode |-> Mode(s), width |-> s.w, height |-> s.h]),
            ErrorLine(f, Exc("OSError", "image file is truncated")) >>
    [] OTHER ->
         << ModeSizeLine(f, [mode |-> Mode(s), width |-> s.w, height |-> s.h]),
            CornersLine(<<PixelAt(s, 0, 0), PixelAt(s, s.w - 1, 0),
                          PixelAt(s, 0, s.h - 1),
                          PixelAt(s, s.w - 1, s.h - 1)>>) >>

\* C7: the lines printed for a name are a function of that name and of its
\* own file, which is the file its iteration looked at; the other files,
\* and what happened to them, do not enter.
C7_Independent ==
  \A k \in Range :
    Finished(k) =>
      /\ dirOk => disk[FilePath(k)] # Unread
      /\ Lines(k) = OwnLines(files[k], disk[FilePath(k)])

\* A sound image reported between a file that failed and a missing one.
C7_Witness ==
  /\ pc = "done"
  /\ Corrupt(disk[FilePath(1)])
  /\ Sound(disk[FilePath(2)])
  /\ disk[FilePath(3)] = Missing
  /\ Sound(disk[FilePath(4)])
  /\ disk[FilePath(4)] # disk[FilePath(2)]
  /\ Len(Lines(4)) = 2

----------------------------------------------------------------------------
(* C8 *)

\* C8 as stated: an unreadable base directory ends the run with an
\* uncaught failure, and nothing else does.
C8_Original ==
  /\ ~dirOk => pc # "done"
  /\ dirOk => pc # "aborted"

\* C8 amended: no step of the loop aborts the run, for a missing file, for
\* a decode or read failure, and for an unreadable base directory alike:
\* with the directory unreadable the existence test is false for every
\* name, each is reported as not found and nothing is opened.
C8_NoFatalPath ==
  /\ pc # "aborted"
  /\ ~dirOk =>
       /\ \A c \in calls : c[1] = "exists"
       /\ \A k \in Range :
            Finished(k) => Lines(k) = << <<files[k], " not found">> >>

\* The run has ended normally under an unreadable base directory.
C8_Witness ==
  /\ ~dirOk
  /\ pc = "done"
  /\ Len(out) = Len(files)

----------------------------------------------------------------------------
(* C9 *)

\* C9: each name, once its iteration is over, has one or two lines, the
\* last of them a "not found", a corners or an "Error reading" line and no
\* other line of these three kinds; a "not found" line stands alone, and a
\* corners line never shares a name with an error line.
C9_OneOutcome ==
  \A k \in Range :
    Finished(k) =>
      LET T == Lines(k)
          nf == {j \in DOMAIN T : IsNotFound(T[j])}
          ms == {j \in DOMAIN T : IsModeSize(T[j])}
          co == {j \in DOMAIN T : IsCorners(T[j])}
          er == {j \in DOMAIN T : IsError(T[j])}
      IN /\ Len(T) \in {1, 2}
         /\ IsLast(T[Len(T)])
         /\ Cardinality(nf) + Cardinality(co) + Cardinality(er) = 1
         /\ nf # {} => ms = {} /\ Len(T) = 1
         /\ co # {} => er = {}

\* A finished run that has shown all four shapes of output.
C9_Witness ==
  /\ pc = "done"
  /\ \E a, b, c, d \in Range :
       /\ IsNotFound(Lines(a)[1])
       /\ Len(Lines(b)) = 1 /\ IsError(Lines(b)[1])
       /\ Len(Lines(c)) = 2 /\ IsError(Lines(c)[2])
       /\ Len(Lines(d)) = 2 /\ IsCorners(Lines(d)[2])

----------------------------------------------------------------------------
(* C10 *)

\* The existence test of files[k] was true: the script went on to open it.
TestedTrue(k) == <<"open", FilePath(k)>> \in calls

\* C10: a file that another process removed, or replaced by something
\* unreadable, after its existence test was true is reported with an
\* "Error reading" line and no "not found" line; the run is not aborted
\* and at its end every name has been processed.
C10_RaceCaught ==
  /\ pc # "aborted"
  /\ \A k \in Range :
       /\ Finished(k)
       /\ TestedTrue(k)
       /\ FilePath(k) \in raced
       /\ ~Sound(disk[FilePath(k)])
       => /\ IsError(Lines(k)[Len(Lines(k))])
          /\ \A j \in DOMAIN Lines(k) : ~IsNotFound(Lines(k)[j])
  /\ pc = "done" => \A k \in Range : ProcessedOnce(k)

\* The second file was removed after it had been opened, its pixel read
\* failed and was reported, and the last file was reported after it.
C10_Witness ==
  /\ pc = "done"
  /\ FilePath(2) \in raced
  /\ disk[FilePath(2)] = Missing
  /\ TestedTrue(2)
  /\ Len(Lines(2)) = 2
  /\ IsError(Lines(2)[2])
  /\ IsCorners(Lines(5)[Len(Lines(5))])

====
